---- MODULE Spec2Model ----
(***************************************************************************)
(* A model of the on-device AI checker panel (popup.js and its variants):   *)
(* the capability resolver (getApiObject), the availability probe           *)
(* (checkAvailability), the scan handler of the Mad Libs tab and the        *)
(* recursive summarizer (runSummarization), the replace handler with the    *)
(* function it injects into the page, and the model download button.        *)
(*                                                                          *)
(* The host (window, the capability objects, the sessions) is the           *)
(* environment: what it returns or throws is drawn from small sets.         *)
(***************************************************************************)
EXTENDS Integers, Sequences, FiniteSets, TLC

VARIABLES
    (* getApiObject: the host globals, the descriptor and the returned pair *)
    window, apiDef, resolved,
    (* checkAvailability: its parameters, the host's two behaviours, the    *)
    (* local status, the position in the function, what it returned       *)
    apiObject, args, argsBehaviour, noArgsBehaviour,
    pc, status, result, retLine, raised, hostCalls, probes,
    (* Summarize Page: the button and the output, the position in the       *)
    (* handler, and runSummarization's text, chunks, summaries collected,   *)
    (* chunk in progress and recursion pass; the sessions the host created, *)
    (* the calls it received, where a call failed and what was returned     *)
    sumPc, sumBtn, summaryOutput, inputText, text, chunks, chunkSummaries, chunkNo,
    pass, sumSessions, summarizeCalls, failedAt, sumResult,
    (* Mad Libs scan: the position in the handler, the controls it drives,  *)
    (* the words it stored, the language-model sessions the host created,   *)
    (* the way the last scan ended, the pending reset timers and the number *)
    (* of scans started                                                     *)
    scanPc, scanBtnDisabled, replaceBtnHidden, wordsFormHidden, wordsForm, loadingDiv,
    currentWordsMap, lmSessions, scanExit, resetTimers, scanCount, scanTab,
    scanResponse,
    (* which of the three panel scripts is loaded *)
    panel,
    (* Replace Words: the handler runs in flight, the maps handed to        *)
    (* executeScript, the clicks so far, and whether window.close() ran     *)
    replaceOps, injected, replaceCount, panelClosed,
    (* the injected function: its argument, the text nodes as the page had  *)
    (* them, their values now, how often each was assigned, and how many    *)
    (* nodes the walker has visited                                         *)
    replacementsMap, pageText, nodeValue, nodeWrites, walker,
    (* Download Model: the position in the handler, the capability, the     *)
    (* button, badge and error message, what the progress listener showed,  *)
    (* the sessions create() resolved to, the pending timers, the way the   *)
    (* last download ended, the clicks so far, and the Mad Libs flag        *)
    dlPc, dlApi, dlBtn, dlBadge, dlError, dlReports, dlSessions, dlTimers, dlExit,
    dlCount, isGeminiAvailable

resolveVars == <<window, apiDef, resolved>>
probeVars == <<apiObject, args, argsBehaviour, noArgsBehaviour,
               pc, status, result, retLine, raised, hostCalls, probes>>
sumVars == <<sumPc, sumBtn, summaryOutput, inputText, text, chunks, chunkSummaries,
             chunkNo, pass, sumSessions, summarizeCalls, failedAt, sumResult>>
scanVars == <<scanPc, scanBtnDisabled, replaceBtnHidden, wordsFormHidden, wordsForm,
              loadingDiv, currentWordsMap, lmSessions, scanExit, resetTimers, scanCount,
              scanTab, scanResponse>>
replaceVars == <<replaceOps, injected, replaceCount, panelClosed>>
pageVars == <<replacementsMap, pageText, nodeValue, nodeWrites, walker>>
dlVars == <<dlPc, dlApi, dlBtn, dlBadge, dlError, dlReports, dlSessions, dlTimers, dlExit,
            dlCount, isGeminiAvailable>>
vars == <<resolveVars, probeVars, sumVars, scanVars, panel, replaceVars, pageVars, dlVars>>

(* what each part of the panel leaves alone *)
notResolve == <<probeVars, sumVars, scanVars, panel, replaceVars, pageVars, dlVars>>
notProbe == <<resolveVars, sumVars, scanVars, panel, replaceVars, pageVars, dlVars>>
notSum == <<resolveVars, probeVars, scanVars, panel, replaceVars, pageVars, dlVars>>
notMadLibs == <<resolveVars, probeVars, sumVars, panel, pageVars, dlVars>>
notScan == <<notMadLibs, replaceVars>>
notPage == <<resolveVars, probeVars, sumVars, scanVars, panel, replaceVars, dlVars>>
notDownload == <<resolveVars, probeVars, sumVars, scanVars, panel, replaceVars, pageVars>>

----------------------------------------------------------------------------
(* JavaScript values, as far as the probe tells them apart.  A value has a  *)
(* type, a payload for primitives, and for objects the available field:   *)
(* <<>> when the object has no such field, <<v>> when it holds v.           *)

Prim(t, x) == [type |-> t, s |-> x, avail |-> <<>>]
Undefined == Prim("undefined", "")
Null == Prim("null", "")
Str(x) == Prim("string", x)
Num(x) == Prim("number", x)
Bool(x) == Prim("boolean", x)
Obj(fld) == [type |-> "object", s |-> "", avail |-> fld]

(* typeof v: null is reported as an object *)
TypeOf(v) == IF v.type = "null" THEN "object" ELSE v.type

(* ToBoolean(v) *)
Truthy(v) ==
    CASE v.type = "undefined" -> FALSE
      [] v.type = "null" -> FALSE
      [] v.type = "string" -> v.s # ""
      [] v.type = "number" -> v.s # "0"
      [] v.type = "boolean" -> v.s = "true"
      [] OTHER -> TRUE

----------------------------------------------------------------------------
(* The capability resolver.                                                 *)

(* names of capabilities and of a legacy top-level binding *)
Keys == {"LanguageModel", "Summarizer"}
FallbackNames == {"LegacyModel"}
TopNames == Keys \cup FallbackNames

(* what a host global can hold: nothing, null, or a capability object *)
Bindings == {"undefined", "null", "H1", "H2"}
BindingTruthy(b) == b \notin {"undefined", "null"}

(* window: whether window.ai exists, its entries, the top-level bindings *)
Windows ==
    {w \in [hasAi : BOOLEAN, ai : [Keys -> Bindings], top : [TopNames -> Bindings]] :
        ~w.hasAi => \A k \in Keys : w.ai[k] = "undefined"}

(* descriptors: namespace "" and fallback "" stand for an absent property *)
ApiDefs == [key : Keys, namespace : {"", "ai"}, fallback : {""} \cup FallbackNames]

NotResolved == [called |-> FALSE, api |-> "null", path |-> ""]
Found(h, p) == [called |-> TRUE, api |-> h, path |-> p]

(* a resolver that looks at the top level before window.ai *)
GetApiObjectTopFirst(w, d) ==
    IF BindingTruthy(w.top[d.key])
    THEN Found(w.top[d.key], "window." \o d.key)
    ELSE IF d.namespace = "ai" /\ w.hasAi /\ BindingTruthy(w.ai[d.key])
    THEN Found(w.ai[d.key], "window.ai." \o d.key)
    ELSE IF d.fallback # "" /\ BindingTruthy(w.top[d.fallback])
    THEN Found(w.top[d.fallback], "window." \o d.fallback)
    ELSE Found("null", "")

GetApiObject(w, d) ==
    IF d.namespace = "ai" /\ w.hasAi /\ BindingTruthy(w.ai[d.key])
    THEN Found(w.ai[d.key], "window.ai." \o d.key)
    ELSE IF BindingTruthy(w.top[d.key])
    THEN Found(w.top[d.key], "window." \o d.key)
    ELSE IF d.fallback # "" /\ BindingTruthy(w.top[d.fallback])
    THEN Found(w.top[d.fallback], "window." \o d.fallback)
    ELSE Found("null", "")

ResolveCall ==
    /\ ~resolved.called
    /\ resolved' = GetApiObject(window, apiDef)
    /\ UNCHANGED <<window, apiDef, notResolve>>

----------------------------------------------------------------------------
(* The availability probe.                                                  *)

(* how many times in a row the probe is run against the same host *)
MaxProbes == 2

(* the outcome of a piece of code: a value returned at a source line, or an *)
(* exception thrown                                                         *)
Ret(v, line) == [kind |-> "return", value |-> v, line |-> line]
Thrown(line) == [kind |-> "throw", value |-> Undefined, line |-> line]

(* what availability() can resolve to: nothing, null, status tokens, other  *)
(* primitives, and objects with or without an available field             *)
HostTokens == {Str("unavailable"), Str("downloadable"), Str("after-download"),
               Str("readily"), Str("available")}
HostValues ==
    {Undefined, Null, Str("maybe"), Num("42")} \cup HostTokens
    \cup {Obj(<<>>), Obj(<<Str("readily")>>), Obj(<<Str("after-download")>>),
          Obj(<<Str("")>>), Obj(<<Bool("false")>>), Obj(<<Null>>)}

(* a call into the host resolves to a value or throws (rejects) *)
HostBehaviours ==
    {[kind |-> "resolve", value |-> v] : v \in HostValues}
    \cup {[kind |-> "throw", value |-> Undefined]}

(* the handle: null, or an object whose availability property is absent,  *)
(* a function, or something that is no function                             *)
NullApi == [ref |-> "null", availability |-> "undefined"]
ApiObjects ==
    {NullApi} \cup {[ref |-> "H1", availability |-> t] : t \in {"undefined", "function", "string"}}

(* args: apiDef.checkArgs, an object or absent *)
ArgsValues == {Undefined, Obj(<<>>)}

(* a probe whose status outlives the call (a variable of the enclosing scope) *)
StaleStatus(previous) == previous

(* let status; *)
StatusAtEntry(previous) == Undefined

(* a catch that records the failure of the call with args as the status *)
AfterArgsCallError(b, st) == IF b.kind = "throw" THEN Str("error") ELSE b.value

(* try { status = await apiObject.availability(args) } catch (e) { warn } *)
AfterArgsCall(b, st) == IF b.kind = "throw" THEN st ELSE b.value

(* a normalisation that hands a structured result back as it is *)
NormalizeStatusNoUnwrap(st) ==
    IF st = Undefined THEN Ret(Str("error"), 100) ELSE Ret(st, 106)

(* from if (status === undefined) return 'error' to return status *)
NormalizeStatus(st) ==
    IF st = Undefined THEN Ret(Str("error"), 100)
    ELSE IF TypeOf(st) = "object"
    THEN IF st.type = "null" THEN Thrown(103)
         ELSE IF st.avail # <<>> /\ Truthy(st.avail[1]) THEN Ret(st.avail[1], 103)
         ELSE Ret(Str("available_object"), 104)
    ELSE Ret(st, 106)

(* a catch that reports 'unavailable' when no args had been supplied *)
NoArgsCatchUnavailable(a, st) ==
    IF Truthy(a) THEN Ret(Str("error"), 96) ELSE Ret(Str("unavailable"), 96)

(* the catch of the no-argument call: if (args) return 'error', else on   *)
(* to the normalisation with status still undefined                         *)
NoArgsCatch(a, st) == IF Truthy(a) THEN Ret(Str("error"), 96) ELSE NormalizeStatus(st)

(* no outer try/catch: what is thrown inside reaches the caller *)
OuterRethrow(o) == o

(* the outer try/catch: anything thrown inside becomes 'error' *)
OuterCatch(o) == IF o.kind = "throw" THEN Ret(Str("error"), 111) ELSE o

(* a test for the mere presence of the property *)
HasAvailabilityProperty(api) == api.availability # "undefined"

(* typeof apiObject.availability === 'function' *)
HasAvailability(api) == api.availability = "function"

(* the function returns (or raises) to its caller *)
Finish(o, calls) ==
    /\ pc' = "done"
    /\ result' = o.value
    /\ retLine' = o.line
    /\ raised' = (o.kind = "throw")
    /\ hostCalls' = calls
    /\ probes' = Append(probes, [value |-> o.value, raised |-> o.kind = "throw",
                                 calls |-> calls])

(* entry, up to the first await *)
CheckEnter ==
    /\ pc = "idle"
    /\ IF apiObject.ref = "null"
       THEN Finish(Ret(Str("unavailable"), 77), hostCalls) /\ UNCHANGED status
       ELSE IF HasAvailability(apiObject)
       THEN /\ status' = StatusAtEntry(status)
            /\ IF Truthy(args)
               THEN /\ pc' = "awaitArgs"
                    /\ hostCalls' = Append(hostCalls, "availability(args)")
                    /\ UNCHANGED <<result, retLine, raised, probes>>
               ELSE IF status' = Undefined
               THEN /\ pc' = "awaitNoArgs"
                    /\ hostCalls' = Append(hostCalls, "availability()")
                    /\ UNCHANGED <<result, retLine, raised, probes>>
               ELSE Finish(OuterCatch(NormalizeStatus(status')), hostCalls)
       ELSE Finish(OuterCatch(Ret(Str("available_unknown_methods"), 108)), hostCalls)
            /\ UNCHANGED status
    /\ UNCHANGED <<apiObject, args, argsBehaviour, noArgsBehaviour, notProbe>>

(* availability(args) settles *)
ArgsSettle ==
    /\ pc = "awaitArgs"
    /\ status' = AfterArgsCall(argsBehaviour, status)
    /\ IF status' = Undefined
       THEN /\ pc' = "awaitNoArgs"
            /\ hostCalls' = Append(hostCalls, "availability()")
            /\ UNCHANGED <<result, retLine, raised, probes>>
       ELSE Finish(OuterCatch(NormalizeStatus(status')), hostCalls)
    /\ UNCHANGED <<apiObject, args, argsBehaviour, noArgsBehaviour, notProbe>>

(* availability() settles *)
NoArgsSettle ==
    /\ pc = "awaitNoArgs"
    /\ IF noArgsBehaviour.kind = "throw"
       THEN /\ status' = status
            /\ Finish(OuterCatch(NoArgsCatch(args, status)), hostCalls)
       ELSE /\ status' = noArgsBehaviour.value
            /\ Finish(OuterCatch(NormalizeStatus(status')), hostCalls)
    /\ UNCHANGED <<apiObject, args, argsBehaviour, noArgsBehaviour, notProbe>>

(* the caller probes again, with the same handle and args *)
ProbeAgain ==
    /\ pc = "done"
    /\ Len(probes) < MaxProbes
    /\ pc' = "idle"
    /\ hostCalls' = <<>>
    /\ result' = Undefined
    /\ retLine' = 0
    /\ raised' = FALSE
    /\ UNCHANGED <<status, probes, apiObject, args, argsBehaviour, noArgsBehaviour,
                   notProbe>>

----------------------------------------------------------------------------
(* The recursive summarizer and the Summarize Page button.                  *)

CHUNK_SIZE == 4000

(* how many passes of runSummarization a behaviour follows *)
MaxPasses == 3

(* A text is kept as its runs of characters: a run of n sentence            *)
(* terminators (. ! ? newline) or of n other characters.  Adjacent runs are *)
(* of different kinds, so the runs are exactly what the sentence pattern    *)
(* /[^.!?\n]+[.!?\n]+/g can tell apart.                                     *)
Run(isTerm, n) == [term |-> isTerm, n |-> n]
Chars(n) == Run(FALSE, n)
Terms(n) == Run(TRUE, n)
EmptyText == <<>>

(* text.length *)
RECURSIVE TextLength(_)
TextLength(t) == IF t = <<>> THEN 0 ELSE Head(t).n + TextLength(Tail(t))

(* a + b *)
Concat(a, b) ==
    IF a = <<>> THEN b
    ELSE IF b = <<>> THEN a
    ELSE IF a[Len(a)].term = b[1].term
    THEN SubSeq(a, 1, Len(a) - 1) \o <<Run(b[1].term, a[Len(a)].n + b[1].n)>> \o Tail(b)
    ELSE a \o b

(* text.match(/[^.!?\n]+[.!?\n]+/g): every run of other characters together *)
(* with the run of terminators that follows it, in order                    *)
RECURSIVE MatchFrom(_, _)
MatchFrom(t, i) ==
    IF i >= Len(t) THEN <<>>
    ELSE IF ~t[i].term /\ t[i + 1].term
    THEN <<(<<t[i], t[i + 1]>>)>> \o MatchFrom(t, i + 2)
    ELSE MatchFrom(t, i + 1)

(* text.match(...) || [text] *)
Sentences(t) == IF MatchFrom(t, 1) = <<>> THEN <<t>> ELSE MatchFrom(t, 1)

(* the packing loop and the final if (currentChunk) chunks.push(...) *)
RECURSIVE PackFrom(_, _, _, _)
PackFrom(ss, i, done, currentChunk) ==
    IF i > Len(ss)
    THEN IF currentChunk # EmptyText THEN Append(done, currentChunk) ELSE done
    ELSE IF TextLength(Concat(currentChunk, ss[i])) > CHUNK_SIZE
    THEN PackFrom(ss, i + 1, Append(done, currentChunk), ss[i])
    ELSE PackFrom(ss, i + 1, done, Concat(currentChunk, ss[i]))

SplitIntoChunks(t) == PackFrom(Sentences(t), 1, <<>>, EmptyText)

(* a join whose separator is a thousand line breaks *)
RECURSIVE JoinPadded(_)
JoinPadded(ss) ==
    IF ss = <<>> THEN EmptyText
    ELSE IF Len(ss) = 1 THEN ss[1]
    ELSE Concat(Concat(ss[1], <<Terms(1000)>>), JoinPadded(Tail(ss)))

(* chunkSummaries.join('\n\n') *)
RECURSIVE JoinSummaries(_)
JoinSummaries(ss) ==
    IF ss = <<>> THEN EmptyText
    ELSE IF Len(ss) = 1 THEN ss[1]
    ELSE Concat(Concat(ss[1], <<Terms(2)>>), JoinSummaries(Tail(ss)))

(* page texts: short, exactly at the bound, three sentences of 3000, one    *)
(* sentence over the bound, no terminator at all, terminators first, an     *)
(* unterminated tail, a short sentence before a long unterminated tail      *)
PageTexts ==
    { <<Chars(99), Terms(1)>>,
      <<Chars(3999), Terms(1)>>,
      <<Chars(2999), Terms(1), Chars(2999), Terms(1), Chars(2999), Terms(1)>>,
      <<Chars(4500), Terms(1)>>,
      <<Chars(5000)>>,
      <<Terms(2), Chars(2999), Terms(1), Chars(2999), Terms(1)>>,
      <<Chars(2999), Terms(1), Chars(2999), Terms(1), Chars(500)>>,
      <<Chars(100), Terms(1), Chars(4500)>> }

(* what summarize(t) can resolve to: a short summary, a long one, or the    *)
(* text it was given; and, for the runs that look at how much a summary     *)
(* shortens its text, also that text less its first character               *)
SummaryKinds == {"short", "long", "same"}
ShavingKinds == SummaryKinds \cup {"shave"}
SummaryOf(t, kind) ==
    CASE kind = "short" -> <<Chars(40), Terms(1)>>
      [] kind = "long" -> <<Chars(2500)>>
      [] kind = "shave" /\ t # EmptyText ->
            IF Head(t).n = 1 THEN Tail(t) ELSE [t EXCEPT ![1].n = @ - 1]
      [] OTHER -> t

NoSummary == [kind |-> "none", value |-> EmptyText]

(* a summarize(t) call of pass p as the host saw it, and the call once it   *)
(* has resolved to r                                                        *)
SummarizeCall(p, t) == [pass |-> p, text |-> t, result |-> <<>>]
Resolved(calls, r) == [calls EXCEPT ![Len(calls)].result = <<r>>]
NoFailure == [where |-> "none", pass |-> 0, chunk |-> 0]

(* a session that is never destroyed *)
KeepSession(ss, i) == ss

(* summarizer.destroy() *)
DestroySession(ss, i) == [ss EXCEPT ![i].destroyed = @ + 1]

(* base case: a rejected summarize() leaves the function before destroy() *)
OnBaseReject(ss, i) == ss

(* a batch without try/finally: a rejected summarize() skips destroy() *)
OnBatchRejectLeak(ss, i) == ss

(* batch: the finally block runs when summarize() rejects *)
OnBatchReject(ss, i) == DestroySession(ss, i)

(* the click handler's catch *)
SumFail(where, k) ==
    /\ sumPc' = "idle"
    /\ sumBtn' = [disabled |-> FALSE, label |-> "Retry"]
    /\ summaryOutput' = [shown |-> TRUE, kind |-> "error", value |-> EmptyText]
    /\ failedAt' = [where |-> where, pass |-> pass, chunk |-> k]
    /\ sumResult' = [kind |-> "throw", value |-> EmptyText]

(* runSummarization(t, apiObject) up to its await of create(): the length   *)
(* test, and the chunking when the text is over the bound                   *)
EnterRunSummarization(t, p) ==
    /\ text' = t
    /\ pass' = p
    /\ chunks' = IF TextLength(t) <= CHUNK_SIZE THEN <<>> ELSE SplitIntoChunks(t)
    /\ chunkSummaries' = <<>>
    /\ chunkNo' = 0
    /\ sumPc' = "awaitCreate"

BaseCase == TextLength(text) <= CHUNK_SIZE

(* if (!text) *)
TextMissing(t) == t = EmptyText

(* btn.onclick, up to the await in getTabContent; a behaviour follows one   *)
(* run of the handler                                                       *)
SumClick ==
    /\ panel = "summarizer"
    /\ sumPc = "idle"
    /\ ~sumBtn.disabled
    /\ sumResult.kind = "none"
    /\ sumBtn' = [disabled |-> TRUE, label |-> "Summarizing..."]
    /\ summaryOutput' = [shown |-> FALSE, kind |-> "empty", value |-> EmptyText]
    /\ sumPc' = "awaitTabQuery"
    /\ UNCHANGED <<inputText, text, chunks, chunkSummaries, chunkNo, pass, sumSessions,
                   summarizeCalls, failedAt, sumResult, notSum>>

(* chrome.tabs.query settles: a tab, no tab, or a rejection *)
SumTabQuerySettle ==
    /\ sumPc = "awaitTabQuery"
    /\ \E outcome \in {"tab", "none", "reject"} :
          IF outcome = "tab"
          THEN /\ sumPc' = "awaitPageText"
               /\ UNCHANGED <<sumBtn, summaryOutput, failedAt, sumResult>>
          ELSE SumFail(IF outcome = "none" THEN "noText" ELSE "tabQuery", 0)
    /\ UNCHANGED <<inputText, text, chunks, chunkSummaries, chunkNo, pass, sumSessions,
                   summarizeCalls, notSum>>

(* chrome.scripting.executeScript settles with the page's text or rejects;  *)
(* an empty text is refused, any other starts runSummarization              *)
SumPageTextSettle ==
    /\ sumPc = "awaitPageText"
    /\ \/ /\ SumFail("executeScript", 0)
          /\ UNCHANGED <<inputText, text, chunks, chunkSummaries, chunkNo, pass>>
       \/ \E t \in PageTexts \cup {EmptyText} :
             /\ inputText' = t
             /\ IF TextMissing(t)
                THEN /\ SumFail("noText", 0)
                     /\ UNCHANGED <<text, chunks, chunkSummaries, chunkNo, pass>>
                ELSE /\ EnterRunSummarization(t, 1)
                     /\ UNCHANGED <<sumBtn, summaryOutput, failedAt, sumResult>>
    /\ UNCHANGED <<sumSessions, summarizeCalls, notSum>>

(* apiObject.create(...) settles: a new session, whose first summarize()    *)
(* call is issued at once, or a rejection                                   *)
SumCreateSettle ==
    /\ sumPc = "awaitCreate"
    /\ \/ /\ SumFail("create", 0)
          /\ UNCHANGED <<sumSessions, summarizeCalls, chunkNo>>
       \/ /\ sumSessions' = Append(sumSessions, [pass |-> pass, destroyed |-> 0])
          /\ chunkNo' = 1
          /\ summarizeCalls' =
                Append(summarizeCalls,
                       SummarizeCall(pass, IF BaseCase THEN text ELSE chunks[1]))
          /\ sumPc' = "awaitSummarize"
          /\ UNCHANGED <<sumBtn, summaryOutput, failedAt, sumResult>>
    /\ UNCHANGED <<inputText, text, chunks, chunkSummaries, pass, notSum>>

(* summarize() of the base case settles *)
SumBaseSettleWith(kinds) ==
    /\ sumPc = "awaitSummarize"
    /\ BaseCase
    /\ \/ /\ sumSessions' = OnBaseReject(sumSessions, Len(sumSessions))
          /\ SumFail("summarize", chunkNo)
          /\ UNCHANGED summarizeCalls
       \/ \E kind \in kinds :
             /\ sumSessions' = DestroySession(sumSessions, Len(sumSessions))
             /\ summarizeCalls' = Resolved(summarizeCalls, SummaryOf(text, kind))
             /\ sumResult' = [kind |-> "return", value |-> SummaryOf(text, kind)]
             /\ summaryOutput' = [shown |-> TRUE, kind |-> "summary",
                                  value |-> SummaryOf(text, kind)]
             /\ sumBtn' = [disabled |-> FALSE, label |-> "Summarize Page"]
             /\ sumPc' = "idle"
             /\ UNCHANGED failedAt
    /\ UNCHANGED <<inputText, text, chunks, chunkSummaries, chunkNo, pass, notSum>>

SumBaseSettle == SumBaseSettleWith(SummaryKinds)

(* summarize() of a chunk settles: on a rejection the finally block and the *)
(* handler's catch; else the next chunk, or after the last one the finally  *)
(* block, the join and the recursive call                                   *)
SumChunkSettleWith(kinds) ==
    /\ sumPc = "awaitSummarize"
    /\ ~BaseCase
    /\ \/ /\ sumSessions' = OnBatchReject(sumSessions, Len(sumSessions))
          /\ SumFail("summarize", chunkNo)
          /\ UNCHANGED <<text, chunks, chunkSummaries, chunkNo, pass, summarizeCalls>>
       \/ \E kind \in kinds :
             LET summary == SummaryOf(chunks[chunkNo], kind)
                 all == Append(chunkSummaries, summary)
             IN
             IF chunkNo < Len(chunks)
             THEN /\ chunkSummaries' = all
                  /\ chunkNo' = chunkNo + 1
                  /\ summarizeCalls' =
                        Append(Resolved(summarizeCalls, summary),
                               SummarizeCall(pass, chunks[chunkNo + 1]))
                  /\ UNCHANGED <<sumPc, sumSessions, text, chunks, pass, sumBtn,
                                 summaryOutput, failedAt, sumResult>>
             ELSE /\ sumSessions' = DestroySession(sumSessions, Len(sumSessions))
                  /\ summarizeCalls' = Resolved(summarizeCalls, summary)
                  /\ IF pass < MaxPasses
                     THEN EnterRunSummarization(JoinSummaries(all), pass + 1)
                     ELSE /\ sumPc' = "beyond"
                          /\ chunkSummaries' = all
                          /\ UNCHANGED <<text, chunks, chunkNo, pass>>
                  /\ UNCHANGED <<sumBtn, summaryOutput, failedAt, sumResult>>
    /\ UNCHANGED <<inputText, notSum>>

SumChunkSettle == SumChunkSettleWith(SummaryKinds)

----------------------------------------------------------------------------
(* The scan handler of the Mad Libs tab.                                    *)

(* how many scans a behaviour follows *)
MaxScans == 2

(* The model's response is kept as its tokens: a code fence (FENCE), a       *)
(* language tag, white space, and a body: a JSON text or prose.             *)
Whitespace == {" ", "\n"}
Responses ==
    { <<"{words}">>,
      <<" ", "{words}", "\n">>,
      <<"FENCE", "json", "\n", "{words}", "\n", "FENCE">>,
      <<"FENCE", "\n", "{words}", "\n", "FENCE">>,
      <<"FENCE", "js", "\n", "{words}", "\n", "FENCE">>,
      <<"FENCE", "json", "\n", "{words}", "\n", "FENCE", "\n", "prose">>,
      <<"prose">>,
      <<"null">>,
      <<"{nouns:5}">>,
      <<"{}">>,
      <<"{run,run}">> }

(* result.trim() *)
RECURSIVE TrimStart(_)
TrimStart(r) == IF r # <<>> /\ Head(r) \in Whitespace THEN TrimStart(Tail(r)) ELSE r
RECURSIVE TrimEnd(_)
TrimEnd(r) ==
    IF r # <<>> /\ r[Len(r)] \in Whitespace THEN TrimEnd(SubSeq(r, 1, Len(r) - 1)) ELSE r
Trim(r) == TrimEnd(TrimStart(r))

(* jsonStr.replace(/^FENCE(json)?/, ''), FENCE being three backquotes *)
StripLeadingFence(r) ==
    IF r # <<>> /\ Head(r) = "FENCE"
    THEN IF Len(r) >= 2 /\ r[2] = "json" THEN SubSeq(r, 3, Len(r)) ELSE Tail(r)
    ELSE r

(* .replace(/FENCE$/, '') *)
StripTrailingFence(r) ==
    IF r # <<>> /\ r[Len(r)] = "FENCE" THEN SubSeq(r, 1, Len(r) - 1) ELSE r

(* if (jsonStr.startsWith(FENCE)) strip both fences *)
StripFences(r) ==
    IF r # <<>> /\ Head(r) = "FENCE" THEN StripTrailingFence(StripLeadingFence(r)) ELSE r

(* the values the JSON bodies denote; a category is absent, an array of     *)
(* words, or something that is no array                                     *)
Absent == [kind |-> "absent", items |-> <<>>]
Words(ws) == [kind |-> "array", items |-> ws]
NotArray == [kind |-> "number", items |-> <<>>]
JsonObject(n, v, a) == [type |-> "object", nouns |-> n, verbs |-> v, adjectives |-> a]
JsonNull == [type |-> "null", nouns |-> Absent, verbs |-> Absent, adjectives |-> Absent]
NoWords == JsonNull

JsonBodies == {"{words}", "null", "{nouns:5}", "{}", "{run,run}"}
JsonValue(body) ==
    CASE body = "{words}" -> JsonObject(Words(<<"cat">>), Words(<<>>), Words(<<"big">>))
      [] body = "{nouns:5}" -> JsonObject(NotArray, Words(<<"run">>), Absent)
      [] body = "{}" -> JsonObject(Absent, Absent, Absent)
      [] body = "{run,run}" -> JsonObject(Words(<<"run">>), Words(<<"run">>), Absent)
      [] OTHER -> JsonNull

(* JSON.parse(jsonStr): white space around one JSON text, else it throws *)
JsonParse(r) ==
    LET t == Trim(r) IN
    IF Len(t) = 1 /\ t[1] \in JsonBodies
    THEN [ok |-> TRUE, value |-> JsonValue(t[1])]
    ELSE [ok |-> FALSE, value |-> JsonNull]

(* renderWordsForm(wordsData): one input per word, category by category;    *)
(* it throws on null and on a category that is no array                     *)
Categories == <<"nouns", "verbs", "adjectives">>
InputsOf(cat, ws) ==
    [i \in 1..Len(ws) |-> [original |-> ws[i], category |-> cat, value |-> <<>>]]
RECURSIVE RenderFrom(_, _, _)
RenderFrom(data, c, inputs) ==
    IF c > Len(Categories) THEN [threw |-> FALSE, inputs |-> inputs]
    ELSE LET words == data[Categories[c]] IN
         IF words.kind = "absent" \/ (words.kind = "array" /\ words.items = <<>>)
         THEN RenderFrom(data, c + 1, inputs)
         ELSE IF words.kind = "array"
         THEN RenderFrom(data, c + 1, inputs \o InputsOf(Categories[c], words.items))
         ELSE [threw |-> TRUE, inputs |-> inputs]
RenderWordsForm(data, form) ==
    IF data.type = "null" THEN [threw |-> TRUE, inputs |-> form]
    ELSE RenderFrom(data, 1, form)

(* hosts of the scan: no LanguageModel, one under window.ai, one at the top *)
ScanWindows ==
    {w \in Windows :
        /\ w.top["Summarizer"] = "undefined" /\ w.top["LegacyModel"] = "undefined"
        /\ w.ai["Summarizer"] = "undefined"
        /\ w.top["LanguageModel"] \in {"undefined", "H2"}
        /\ w.ai["LanguageModel"] \in {"undefined", "H1"}
        /\ w.hasAi = (w.ai["LanguageModel"] = "H1")}

LanguageModelDef == [key |-> "LanguageModel", namespace |-> "ai", fallback |-> ""]

(* the catch of the handler: the error is shown and a timer is set *)
ScanCatch(exit) ==
    /\ scanPc' = "idle"
    /\ scanExit' = exit
    /\ loadingDiv' = [loadingDiv EXCEPT !.content = "error"]
    /\ resetTimers' = resetTimers + 1

(* a click that leaves the earlier inputs in the form *)
KeepForm(form) == form

(* wordsForm.innerHTML = '' *)
ClearForm(form) == <<>>

(* a test of the tab that looks at no url *)
TabUsableAnyUrl(outcome) == outcome \in {"http", "file", "restricted"}

(* a tab the handler goes on with: there is one and its url starts with    *)
(* http or file                                                             *)
TabUsable(outcome) == outcome \in {"http", "file"}

(* the click, up to the await of chrome.tabs.query *)
ScanClick ==
    /\ panel = "popup"
    /\ ~panelClosed
    /\ ~scanBtnDisabled
    /\ scanCount < MaxScans
    /\ scanTab' = "none"
    /\ scanResponse' = <<>>
    /\ scanCount' = scanCount + 1
    /\ scanBtnDisabled' = TRUE
    /\ replaceBtnHidden' = TRUE
    /\ wordsFormHidden' = TRUE
    /\ wordsForm' = ClearForm(wordsForm)
    /\ loadingDiv' = [loadingDiv EXCEPT !.hidden = FALSE]
    /\ scanPc' = "awaitTabQuery"
    /\ scanExit' = "none"
    /\ UNCHANGED <<currentWordsMap, lmSessions, resetTimers, notScan>>

(* chrome.tabs.query settles: a rejection, no tab, a tab without a url, a   *)
(* tab on a restricted page, or a tab on a web page or a file               *)
ScanTabQuerySettle ==
    /\ scanPc = "awaitTabQuery"
    /\ ~panelClosed
    /\ \E outcome \in {"tabQuery", "noTab", "noUrl", "restricted", "http", "file"} :
          /\ scanTab' = outcome
          /\ IF TabUsable(outcome)
             THEN /\ scanPc' = "awaitPageText"
                  /\ UNCHANGED <<scanExit, loadingDiv, resetTimers>>
             ELSE ScanCatch(outcome)
    /\ UNCHANGED <<scanBtnDisabled, replaceBtnHidden, wordsFormHidden, wordsForm,
                   currentWordsMap, lmSessions, scanCount, scanResponse, notScan>>

(* chrome.scripting.executeScript settles; with the page text at hand the   *)
(* language model is looked up and create() is called                       *)
ScanPageTextSettle ==
    /\ scanPc = "awaitPageText"
    /\ ~panelClosed
    /\ \/ ScanCatch("executeScript")
       \/ IF GetApiObject(window, LanguageModelDef).api = "null"
          THEN ScanCatch("noApi")
          ELSE /\ scanPc' = "awaitCreate"
               /\ UNCHANGED <<scanExit, loadingDiv, resetTimers>>
    /\ UNCHANGED <<scanBtnDisabled, replaceBtnHidden, wordsFormHidden, wordsForm,
                   currentWordsMap, lmSessions, scanCount, scanTab, scanResponse,
                   notScan>>

(* languageModel.create() settles: a session, which is prompted at once, or *)
(* a rejection                                                              *)
ScanCreateSettle ==
    /\ scanPc = "awaitCreate"
    /\ ~panelClosed
    /\ \/ ScanCatch("create") /\ UNCHANGED lmSessions
       \/ /\ lmSessions' = Append(lmSessions, [scan |-> scanCount, destroyed |-> 0])
          /\ scanPc' = "awaitPrompt"
          /\ UNCHANGED <<scanExit, loadingDiv, resetTimers>>
    /\ UNCHANGED <<scanBtnDisabled, replaceBtnHidden, wordsFormHidden, wordsForm,
                   currentWordsMap, scanCount, scanTab, scanResponse, notScan>>

(* session.prompt() settles: a rejection, or a response that is parsed,     *)
(* rendered and shown, after which the session is destroyed                 *)
ScanPromptSettle ==
    /\ scanPc = "awaitPrompt"
    /\ ~panelClosed
    /\ \/ /\ ScanCatch("prompt")
          /\ UNCHANGED <<scanBtnDisabled, replaceBtnHidden, wordsFormHidden, wordsForm,
                         currentWordsMap, lmSessions, scanResponse>>
       \/ \E response \in Responses :
             LET parsed == JsonParse(StripFences(Trim(response)))
                 rendered == RenderWordsForm(parsed.value, wordsForm)
             IN  /\ scanResponse' = response
                 /\ IF ~parsed.ok
                    THEN /\ ScanCatch("parse")
                         /\ UNCHANGED <<scanBtnDisabled, replaceBtnHidden, wordsFormHidden,
                                        wordsForm, currentWordsMap, lmSessions>>
                    ELSE IF rendered.threw
                    THEN /\ ScanCatch("render")
                         /\ currentWordsMap' = parsed.value
                         /\ wordsForm' = rendered.inputs
                         /\ UNCHANGED <<scanBtnDisabled, replaceBtnHidden, wordsFormHidden,
                                        lmSessions>>
                    ELSE /\ currentWordsMap' = parsed.value
                         /\ wordsForm' = rendered.inputs
                         /\ loadingDiv' = [loadingDiv EXCEPT !.hidden = TRUE]
                         /\ wordsFormHidden' = FALSE
                         /\ replaceBtnHidden' = FALSE
                         /\ scanBtnDisabled' = FALSE
                         /\ lmSessions' =
                               [lmSessions EXCEPT ![Len(lmSessions)].destroyed = @ + 1]
                         /\ scanPc' = "idle"
                         /\ scanExit' = "success"
                         /\ UNCHANGED resetTimers
    /\ UNCHANGED <<scanCount, scanTab, notScan>>

(* the timer set by the catch fires, three seconds later *)
ScanResetTimer ==
    /\ resetTimers > 0
    /\ ~panelClosed
    /\ resetTimers' = resetTimers - 1
    /\ loadingDiv' = [hidden |-> TRUE, content |-> "spinner"]
    /\ scanBtnDisabled' = FALSE
    /\ UNCHANGED <<scanPc, replaceBtnHidden, wordsFormHidden, wordsForm, currentWordsMap,
                   lmSessions, scanExit, scanCount, scanTab, scanResponse, notScan>>

----------------------------------------------------------------------------
(* The Replace Words handler of the Mad Libs tab.                           *)

(* how many clicks on Replace Words a behaviour follows *)
MaxReplaces == 1

(* what the user types into an input of the words form: blanks only, or a  *)
(* word with blanks around it                                               *)
InputValues == { <<" ">>, <<" ", "dog", "\n">> }

(* a map that takes every entry as a new one *)
PutAppend(map, key, value) == Append(map, [original |-> key, replacement |-> value])

(* replacements[key] = value: a new key goes last, a known key keeps its    *)
(* place                                                                    *)
Put(map, key, value) ==
    IF \E k \in 1..Len(map) : map[k].original = key
    THEN [k \in 1..Len(map) |->
             IF map[k].original = key THEN [map[k] EXCEPT !.replacement = value]
             ELSE map[k]]
    ELSE Append(map, [original |-> key, replacement |-> value])

(* inputs.forEach(input => { if (input.value.trim()) ... }) *)
RECURSIVE GatherFrom(_, _, _)
GatherFrom(form, i, map) ==
    IF i > Len(form) THEN map
    ELSE IF Trim(form[i].value) # <<>>
    THEN GatherFrom(form, i + 1, Put(map, form[i].original, Trim(form[i].value)))
    ELSE GatherFrom(form, i + 1, map)
GatherReplacements(form) == GatherFrom(form, 1, <<>>)

(* a run of the handler has ended *)
EndOp(ops, i) == SubSeq(ops, 1, i - 1) \o SubSeq(ops, i + 1, Len(ops))

(* the user types into an input of the visible form *)
TypeValue ==
    /\ panel = "popup"
    /\ ~panelClosed
    /\ ~wordsFormHidden
    /\ \E i \in 1..Len(wordsForm), v \in InputValues :
          /\ wordsForm[i].value # v
          /\ wordsForm' = [wordsForm EXCEPT ![i].value = v]
    /\ UNCHANGED <<scanPc, scanBtnDisabled, replaceBtnHidden, wordsFormHidden, loadingDiv,
                   currentWordsMap, lmSessions, scanExit, resetTimers, scanCount, scanTab,
                   scanResponse, replaceVars, notMadLibs>>

(* the click, up to the return on an empty map or the await of              *)
(* chrome.tabs.query                                                        *)
ReplaceClick ==
    /\ panel = "popup"
    /\ ~panelClosed
    /\ ~replaceBtnHidden
    /\ replaceCount < MaxReplaces
    /\ replaceCount' = replaceCount + 1
    /\ LET replacements == GatherReplacements(wordsForm) IN
          replaceOps' =
             IF replacements = <<>> THEN replaceOps
             ELSE Append(replaceOps,
                         [pc |-> "awaitTabQuery", replacements |-> replacements])
    /\ UNCHANGED <<injected, panelClosed, scanVars, notMadLibs>>

(* chrome.tabs.query settles for a run: a tab, on which executeScript is    *)
(* called; no tab, where tab.id throws; or a rejection                      *)
ReplaceTabQuerySettle ==
    /\ ~panelClosed
    /\ \E i \in 1..Len(replaceOps), outcome \in {"tab", "noTab", "reject"} :
          /\ replaceOps[i].pc = "awaitTabQuery"
          /\ replaceOps' =
                IF outcome = "tab"
                THEN [replaceOps EXCEPT ![i].pc = "awaitExecuteScript"]
                ELSE EndOp(replaceOps, i)
    /\ UNCHANGED <<injected, replaceCount, panelClosed, scanVars, notMadLibs>>

(* chrome.scripting.executeScript settles for a run: the function ran in    *)
(* the page and the panel closes, or a rejection                            *)
ReplaceExecuteSettle ==
    /\ ~panelClosed
    /\ \E i \in 1..Len(replaceOps) :
          /\ replaceOps[i].pc = "awaitExecuteScript"
          /\ replaceOps' = EndOp(replaceOps, i)
          /\ \/ /\ injected' = Append(injected, replaceOps[i].replacements)
                /\ panelClosed' = TRUE
             \/ UNCHANGED <<injected, panelClosed>>
    /\ UNCHANGED <<replaceCount, scanVars, notMadLibs>>

----------------------------------------------------------------------------
(* The function the replace handler injects into the page.                  *)

(* how many text nodes the page has *)
NodeCount == 2

(* Strings are sequences of characters; GRAVE stands for the backquote.     *)
Lower(c) ==
    CASE c = "C" -> "c"
      [] c = "A" -> "a"
      [] c = "T" -> "t"
      [] OTHER -> c

(* the class [.*+?^${}()|[\]\\] *)
Metachars == {".", "*", "+", "?", "^", "$", "{", "}", "(", ")", "|", "[", "]", "\\"}

(* original.replace(/[.*+?^${}()|[\]\\]/g, '\\$&') *)
RECURSIVE EscapeRegExp(_)
EscapeRegExp(w) ==
    IF w = <<>> THEN <<>>
    ELSE (IF Head(w) \in Metachars THEN <<"\\", Head(w)>> ELSE <<Head(w)>>)
         \o EscapeRegExp(Tail(w))

(* new RegExp(source, 'gi'): an escaped character is that character, a      *)
(* bare dot is any character but a line break, any other character is       *)
(* itself                                                                   *)
Lit(c) == [any |-> FALSE, c |-> c]
AnyChar == [any |-> TRUE, c |-> "."]
RECURSIVE Compile(_)
Compile(src) ==
    IF src = <<>> THEN <<>>
    ELSE IF Head(src) = "\\" /\ Len(src) >= 2
    THEN <<Lit(src[2])>> \o Compile(SubSeq(src, 3, Len(src)))
    ELSE IF Head(src) = "."
    THEN <<AnyChar>> \o Compile(Tail(src))
    ELSE <<Lit(Head(src))>> \o Compile(Tail(src))

(* the pattern matches t at position i, without regard to case *)
MatchesAt(atoms, t, i) ==
    /\ i + Len(atoms) - 1 <= Len(t)
    /\ \A k \in 1..Len(atoms) :
          IF atoms[k].any THEN t[i + k - 1] # "\n"
          ELSE Lower(t[i + k - 1]) = Lower(atoms[k].c)

(* regex.test(text) *)
RegexTest(atoms, t) == \E i \in 1..(Len(t) + 1) : MatchesAt(atoms, t, i)

(* the replacement string of String.prototype.replace: $$ is a dollar, $&   *)
(* the match, $GRAVE the text before it, $' the text after it; there are no *)
(* groups, so any other dollar stands for itself                            *)
RECURSIVE Expand(_, _, _, _)
Expand(r, matched, before, after) ==
    IF r = <<>> THEN <<>>
    ELSE IF Head(r) = "$" /\ Len(r) >= 2 /\ r[2] \in {"$", "&", "GRAVE", "'"}
    THEN (CASE r[2] = "$" -> <<"$">>
            [] r[2] = "&" -> matched
            [] r[2] = "GRAVE" -> before
            [] OTHER -> after)
         \o Expand(SubSeq(r, 3, Len(r)), matched, before, after)
    ELSE <<Head(r)>> \o Expand(Tail(r), matched, before, after)

(* text.replace(regex, replacement) with the g flag: every match from left  *)
(* to right, none overlapping; an empty pattern matches before every        *)
(* character and at the end                                                 *)
RECURSIVE ReplaceFrom(_, _, _, _)
ReplaceFrom(t, atoms, r, i) ==
    IF i > Len(t)
    THEN IF atoms = <<>> THEN Expand(r, <<>>, t, <<>>) ELSE <<>>
    ELSE IF MatchesAt(atoms, t, i)
    THEN IF atoms = <<>>
         THEN Expand(r, <<>>, SubSeq(t, 1, i - 1), SubSeq(t, i, Len(t)))
              \o <<t[i]>> \o ReplaceFrom(t, atoms, r, i + 1)
         ELSE Expand(r, SubSeq(t, i, i + Len(atoms) - 1), SubSeq(t, 1, i - 1),
                     SubSeq(t, i + Len(atoms), Len(t)))
              \o ReplaceFrom(t, atoms, r, i + Len(atoms))
    ELSE <<t[i]>> \o ReplaceFrom(t, atoms, r, i + 1)
StringReplace(t, atoms, r) == ReplaceFrom(t, atoms, r, 1)

(* the loop over Object.entries(replacementsMap) for one node *)
RECURSIVE ApplyEntries(_, _, _, _)
ApplyEntries(t, map, k, modified) ==
    IF k > Len(map) THEN [text |-> t, modified |-> modified]
    ELSE LET regex == Compile(EscapeRegExp(map[k].original)) IN
         IF RegexTest(regex, t)
         THEN ApplyEntries(StringReplace(t, regex, map[k].replacement), map, k + 1, TRUE)
         ELSE ApplyEntries(t, map, k + 1, modified)

(* text nodes of a page *)
NodeTexts ==
    { <<"T", "h", "e", " ", "C", "a", "t", " ", "s", "a", "t", ".">>,
      <<"c", "a", "t", "c", "A", "T">>,
      <<"a", " ", "d", "o", "g", "\n">>,
      <<"o", "x">> }

(* replacement maps: the plain one, dollar patterns in the replacement, a   *)
(* metacharacter as the word, a replacement that holds a later word, two    *)
(* words of which one is part of the other                                  *)
Entry(o, r) == [original |-> o, replacement |-> r]
ReplacementMaps ==
    { <<Entry(<<"c", "a", "t">>, <<"d", "o", "g">>)>>,
      <<Entry(<<"c", "a", "t">>, <<"$", "&">>)>>,
      <<Entry(<<"c", "a", "t">>, <<"$", "$", "5">>)>>,
      <<Entry(<<"a", "t">>, <<"$", "GRAVE">>)>>,
      <<Entry(<<".">>, <<"!">>)>>,
      <<Entry(<<"c", "a", "t">>, <<"d", "o", "g">>),
        Entry(<<"d", "o", "g">>, <<"o", "x">>)>>,
      <<Entry(<<"a", "t">>, <<"i", "t">>), Entry(<<"c", "a", "t">>, <<"d", "o", "g">>)>> }

(* a loop that assigns every node it visits *)
NodeWrittenAlways(r) == TRUE

(* if (modified) *)
NodeWritten(r) == r.modified

(* one turn of while (node = walker.nextNode()) *)
VisitNode ==
    /\ walker < Len(pageText)
    /\ walker' = walker + 1
    /\ LET n == walker + 1
           r == ApplyEntries(nodeValue[n], replacementsMap, 1, FALSE)
       IN  /\ nodeValue' = IF NodeWritten(r) THEN [nodeValue EXCEPT ![n] = r.text]
                           ELSE nodeValue
           /\ nodeWrites' = IF NodeWritten(r) THEN [nodeWrites EXCEPT ![n] = @ + 1]
                            ELSE nodeWrites
    /\ UNCHANGED <<replacementsMap, pageText, notPage>>

----------------------------------------------------------------------------
(* The Download Model button of a capability card.                          *)

(* how many clicks on the button and how many progress events per download  *)
(* a behaviour follows                                                      *)
MaxDownloads == 2
MaxEvents == 2

Panels == {"popup", "summarizer", "checker"}

(* downloadprogress events: loaded bytes of a total *)
ProgressTotals == {3, 4}
ProgressEvents == UNION {[loaded : 0..t, total : {t}] : t \in ProgressTotals}

(* (e.loaded / e.total) * 100, kept as a fraction, and Math.round of it *)
Percent(e) == [num |-> e.loaded * 100, den |-> e.total]
RoundPercent(e) == (2 * e.loaded * 100 + e.total) \div (2 * e.total)

(* what the listener shows: the bar's width and the button's label *)
Report(e) == [width |-> Percent(e), label |-> RoundPercent(e)]

(* what create() resolves to: nothing, a session without destroy, a session *)
(* with destroy                                                             *)
SessionKinds == {"none", "plain", "destroyable"}
NewSessions(ss, kind, click) ==
    IF kind = "none" THEN ss
    ELSE Append(ss, [destroy |-> kind = "destroyable", destroyed |-> 0, click |-> click])

(* if (session && typeof session.destroy === 'function') session.destroy()  *)
(* for the session of a click                                               *)
DestroyIfAny(ss, click) ==
    [i \in 1..Len(ss) |->
        IF ss[i].click = click /\ ss[i].destroy
        THEN [ss[i] EXCEPT !.destroyed = @ + 1]
        ELSE ss[i]]

(* a card without a download button *)
NoButton == [present |-> FALSE, disabled |-> FALSE, label |-> "none", onclick |-> FALSE]

(* a catch that leaves the button as it is *)
RetryButtonStuck(btn) == [btn EXCEPT !.label = "Retry Download"]

(* btn.textContent = 'Retry Download'; btn.disabled = false *)
RetryButton(btn) == [btn EXCEPT !.label = "Retry Download", !.disabled = FALSE]

(* the catch of the handler *)
DlCatch ==
    /\ dlError' = TRUE
    /\ dlBtn' = RetryButton(dlBtn)
    /\ dlPc' = "idle"
    /\ dlExit' = "failed"

(* the click, up to the await of apiObject.create(), or through the catch   *)
(* when the capability has no create                                        *)
DlClick ==
    /\ dlBtn.present
    /\ dlBtn.onclick
    /\ ~dlBtn.disabled
    /\ dlCount < MaxDownloads
    /\ dlCount' = dlCount + 1
    /\ dlReports' = <<>>
    /\ IF dlApi.create
       THEN /\ dlBtn' = [dlBtn EXCEPT !.disabled = TRUE]
            /\ dlError' = FALSE
            /\ dlPc' = "awaitCreate"
            /\ dlExit' = "none"
       ELSE DlCatch
    /\ UNCHANGED <<dlApi, dlBadge, dlSessions, dlTimers, isGeminiAvailable, notDownload>>

(* a downloadprogress event reaches the listener *)
DlProgress ==
    /\ dlPc = "awaitCreate"
    /\ Len(dlReports) < MaxEvents
    /\ \E e \in ProgressEvents :
          /\ dlReports' = Append(dlReports, Report(e))
          /\ dlBtn' = [dlBtn EXCEPT !.label = "Downloading"]
    /\ UNCHANGED <<dlPc, dlApi, dlBadge, dlError, dlSessions, dlTimers, dlExit, dlCount,
                   isGeminiAvailable, notDownload>>

(* apiObject.create() settles: a rejection, or the rest of the try block,   *)
(* which differs between the panel scripts: popup.js and the checker set a  *)
(* timer that destroys the session, popup.js also opens Mad Libs, the       *)
(* summarizer panel sets a timer that reloads and destroys at once          *)
DlCreateSettle ==
    /\ dlPc = "awaitCreate"
    /\ \/ /\ DlCatch
          /\ UNCHANGED <<dlBadge, dlSessions, dlTimers, isGeminiAvailable>>
       \/ \E kind \in SessionKinds :
             LET created == NewSessions(dlSessions, kind, dlCount) IN
             /\ dlBtn' = [dlBtn EXCEPT !.label = "Downloaded!", !.onclick = FALSE]
             /\ dlBadge' = "readily"
             /\ isGeminiAvailable' =
                   IF panel = "popup" /\ dlApi.key = "LanguageModel" THEN TRUE
                   ELSE isGeminiAvailable
             /\ IF panel = "summarizer"
                THEN /\ dlTimers' = Append(dlTimers, [kind |-> "reload", click |-> dlCount])
                     /\ dlSessions' = DestroyIfAny(created, dlCount)
                ELSE /\ dlTimers' = Append(dlTimers, [kind |-> "destroy", click |-> dlCount])
                     /\ dlSessions' = created
             /\ dlPc' = "idle"
             /\ dlExit' = "success"
             /\ UNCHANGED dlError
    /\ UNCHANGED <<dlApi, dlReports, dlCount, notDownload>>

(* a timer fires a second later: popup.js and the checker destroy the       *)
(* session, the summarizer panel reloads, after which the capability is     *)
(* ready and its card has no button                                         *)
DlTimer ==
    /\ dlTimers # <<>>
    /\ dlTimers' = Tail(dlTimers)
    /\ IF Head(dlTimers).kind = "destroy"
       THEN /\ dlSessions' = DestroyIfAny(dlSessions, Head(dlTimers).click)
            /\ UNCHANGED <<dlBtn, dlReports, dlError>>
       ELSE /\ dlBtn' = NoButton
            /\ dlReports' = <<>>
            /\ dlError' = FALSE
            /\ UNCHANGED dlSessions
    /\ UNCHANGED <<dlPc, dlApi, dlBadge, dlExit, dlCount, isGeminiAvailable, notDownload>>

----------------------------------------------------------------------------
(* Initial states and specifications.                                       *)

ResolveIdle ==
    /\ window = [hasAi |-> FALSE, ai |-> [k \in Keys |-> "undefined"],
                 top |-> [n \in TopNames |-> "undefined"]]
    /\ apiDef = [key |-> "LanguageModel", namespace |-> "", fallback |-> ""]
    /\ resolved = NotResolved

ProbeIdle ==
    /\ apiObject = NullApi
    /\ args = Undefined
    /\ argsBehaviour = [kind |-> "throw", value |-> Undefined]
    /\ noArgsBehaviour = [kind |-> "throw", value |-> Undefined]
    /\ pc = "off"
    /\ status = Undefined
    /\ result = Undefined
    /\ retLine = 0
    /\ raised = FALSE
    /\ hostCalls = <<>>
    /\ probes = <<>>

SumIdle ==
    /\ sumPc = "idle"
    /\ sumBtn = [disabled |-> FALSE, label |-> "Summarize Page"]
    /\ summaryOutput = [shown |-> FALSE, kind |-> "empty", value |-> EmptyText]
    /\ inputText = EmptyText
    /\ text = EmptyText
    /\ chunks = <<>>
    /\ chunkSummaries = <<>>
    /\ chunkNo = 0
    /\ pass = 0
    /\ sumSessions = <<>>
    /\ summarizeCalls = <<>>
    /\ failedAt = NoFailure
    /\ sumResult = NoSummary

ScanIdle ==
    /\ scanPc = "idle"
    /\ scanBtnDisabled = FALSE
    /\ replaceBtnHidden = TRUE
    /\ wordsFormHidden = TRUE
    /\ wordsForm = <<>>
    /\ loadingDiv = [hidden |-> TRUE, content |-> "spinner"]
    /\ currentWordsMap = NoWords
    /\ lmSessions = <<>>
    /\ scanExit = "none"
    /\ resetTimers = 0
    /\ scanCount = 0
    /\ scanTab = "none"
    /\ scanResponse = <<>>

ReplaceIdle ==
    /\ replaceOps = <<>>
    /\ injected = <<>>
    /\ replaceCount = 0
    /\ panelClosed = FALSE

PageIdle ==
    /\ replacementsMap = <<>>
    /\ pageText = <<>>
    /\ nodeValue = <<>>
    /\ nodeWrites = <<>>
    /\ walker = 0

(* a card whose capability is ready has no download button; one whose       *)
(* capability can be downloaded has the button                              *)
DlRest ==
    /\ dlPc = "idle"
    /\ dlError = FALSE
    /\ dlReports = <<>>
    /\ dlSessions = <<>>
    /\ dlTimers = <<>>
    /\ dlExit = "none"
    /\ dlCount = 0
DlIdle ==
    /\ dlApi = [create |-> TRUE, key |-> "LanguageModel"]
    /\ dlBtn = NoButton
    /\ dlBadge = "readily"
    /\ DlRest
DlReady ==
    /\ dlApi \in [create : BOOLEAN, key : {"LanguageModel", "Summarizer"}]
    /\ dlBtn = [present |-> TRUE, disabled |-> FALSE, label |-> "Download Model",
                onclick |-> TRUE]
    /\ dlBadge = "downloadable"
    /\ DlRest

(* the parts of the panel that a specification of one part leaves idle *)
OthersIdle == ReplaceIdle /\ PageIdle /\ DlIdle

(* getApiObject on every host and descriptor *)
InitResolve ==
    /\ window \in Windows
    /\ apiDef \in ApiDefs
    /\ resolved = NotResolved
    /\ ProbeIdle
    /\ SumIdle
    /\ ScanIdle
    /\ OthersIdle
    /\ panel = "popup"
    /\ isGeminiAvailable = FALSE

NextResolve == ResolveCall

SpecResolve == InitResolve /\ [][NextResolve]_vars

(* checkAvailability on every handle, args and host behaviour *)
InitProbe ==
    /\ apiObject \in ApiObjects
    /\ args \in ArgsValues
    /\ argsBehaviour \in HostBehaviours
    /\ noArgsBehaviour \in HostBehaviours
    /\ pc = "idle"
    /\ status = Undefined
    /\ result = Undefined
    /\ retLine = 0
    /\ raised = FALSE
    /\ hostCalls = <<>>
    /\ probes = <<>>
    /\ ResolveIdle
    /\ SumIdle
    /\ ScanIdle
    /\ OthersIdle
    /\ panel = "popup"
    /\ isGeminiAvailable = FALSE

NextProbe == CheckEnter \/ ArgsSettle \/ NoArgsSettle \/ ProbeAgain

SpecProbe == InitProbe /\ [][NextProbe]_vars

(* the Summarize Page button of a panel whose Summarizer is ready *)
InitSummarize ==
    /\ SumIdle
    /\ ResolveIdle
    /\ ProbeIdle
    /\ ScanIdle
    /\ OthersIdle
    /\ panel = "summarizer"
    /\ isGeminiAvailable = FALSE

NextSummarize ==
    \/ SumClick
    \/ SumTabQuerySettle
    \/ SumPageTextSettle
    \/ SumCreateSettle
    \/ SumBaseSettle
    \/ SumChunkSettle

SpecSummarize == InitSummarize /\ [][NextSummarize]_vars

(* the same handler with a summarizer that may also shave its text *)
NextSummarizeShaving ==
    \/ SumClick
    \/ SumTabQuerySettle
    \/ SumPageTextSettle
    \/ SumCreateSettle
    \/ SumBaseSettleWith(ShavingKinds)
    \/ SumChunkSettleWith(ShavingKinds)

SpecSummarizeShaving == InitSummarize /\ [][NextSummarizeShaving]_vars

(* the Find Words button, on hosts with and without a language model *)
InitScan ==
    /\ window \in ScanWindows
    /\ apiDef = LanguageModelDef
    /\ resolved = NotResolved
    /\ ScanIdle
    /\ ProbeIdle
    /\ SumIdle
    /\ OthersIdle
    /\ panel = "popup"
    /\ isGeminiAvailable = TRUE

NextScan ==
    \/ ScanClick
    \/ ScanTabQuerySettle
    \/ ScanPageTextSettle
    \/ ScanCreateSettle
    \/ ScanPromptSettle
    \/ ScanResetTimer
    \/ TypeValue
    \/ ReplaceClick
    \/ ReplaceTabQuerySettle
    \/ ReplaceExecuteSettle

SpecScan == InitScan /\ [][NextScan]_vars

(* the injected function on every page and replacement map *)
InitReplace ==
    /\ replacementsMap \in ReplacementMaps
    /\ pageText \in [1..NodeCount -> NodeTexts]
    /\ nodeValue = pageText
    /\ nodeWrites = [n \in 1..NodeCount |-> 0]
    /\ walker = 0
    /\ ResolveIdle
    /\ ProbeIdle
    /\ SumIdle
    /\ ScanIdle
    /\ ReplaceIdle
    /\ DlIdle
    /\ panel = "popup"
    /\ isGeminiAvailable = TRUE

NextReplace == VisitNode

SpecReplace == InitReplace /\ [][NextReplace]_vars

(* the Download Model button in each of the three panel scripts *)
InitDownload ==
    /\ panel \in Panels
    /\ DlReady
    /\ isGeminiAvailable = FALSE
    /\ ResolveIdle
    /\ ProbeIdle
    /\ SumIdle
    /\ ScanIdle
    /\ ReplaceIdle
    /\ PageIdle

NextDownload == DlClick \/ DlProgress \/ DlCreateSettle \/ DlTimer

SpecDownload == InitDownload /\ [][NextDownload]_vars

(* the panel as a whole: popup.js with Mad Libs on a ready language model,  *)
(* the summarizer panel with a ready Summarizer, the checker with a         *)
(* capability still to download                                             *)
InitPanel ==
    /\ panel \in Panels
    /\ IF panel = "popup"
       THEN window \in ScanWindows /\ apiDef = LanguageModelDef /\ resolved = NotResolved
       ELSE ResolveIdle
    /\ IF panel = "checker" THEN DlReady ELSE DlIdle
    /\ isGeminiAvailable = (panel = "popup")
    /\ ProbeIdle
    /\ SumIdle
    /\ ScanIdle
    /\ ReplaceIdle
    /\ PageIdle

NextPanel == NextScan \/ NextSummarize \/ NextDownload

SpecPanel == InitPanel /\ [][NextPanel]_vars

(* the timer set by the scan's catch fires *)
SpecPanelFair == SpecPanel /\ WF_vars(ScanResetTimer)

----------------------------------------------------------------------------
(* Properties of the availability probe (SpecProbe).                        *)

Called(c) == \E i \in 1..Len(hostCalls) : hostCalls[i] = c
ArgsCalled == Called("availability(args)")
NoArgsCalled == Called("availability()")

(* the result the host gave the probe, if any: that of the call with args   *)
(* when it resolved to something, else that of the call without             *)
Obtained ==
    IF ArgsCalled /\ argsBehaviour.kind = "resolve" /\ argsBehaviour.value # Undefined
    THEN <<argsBehaviour.value>>
    ELSE IF NoArgsCalled /\ noArgsBehaviour.kind = "resolve"
            /\ noArgsBehaviour.value # Undefined
    THEN <<noArgsBehaviour.value>>
    ELSE <<>>

(* the nine enumerated statuses *)
Statuses ==
    {Str(x) : x \in {"unavailable", "unavailable-no-handle", "error", "downloadable",
                     "after-download", "readily", "available", "available_object",
                     "available_unknown_methods"}}

(* statuses the probe makes up itself *)
Synthesized ==
    {Str("unavailable"), Str("error"), Str("available_object"),
     Str("available_unknown_methods")}

(* what the probe hands through from a host result r *)
HandedThrough(r) ==
    IF r.type = "object"
    THEN IF r.avail # <<>> /\ Truthy(r.avail[1]) THEN {r.avail[1]} ELSE {}
    ELSE IF r.type = "null" THEN {} ELSE {r}

(* C4, as stated: the probe never raises and always returns one of the nine *)
(* enumerated statuses, whatever the host returns or throws.                *)
C4_AlwaysEnumerated ==
    pc = "done" => ~raised /\ result \in Statuses

(* C4, amended: the probe never raises; it returns a status it synthesizes  *)
(* (unavailable, error, available_object, available_unknown_methods) or the *)
(* value the host supplied (a non-object result as it is, or the truthy     *)
(* available field of an object result); hence one of the nine statuses   *)
(* whenever what the host supplied is one.                                  *)
C4_NeverRaises ==
    pc = "done" =>
        /\ ~raised
        /\ \/ result \in Synthesized
           \/ Obtained # <<>> /\ result \in HandedThrough(Obtained[1])
        /\ (Obtained # <<>> /\ HandedThrough(Obtained[1]) \subseteq Statuses)
               => result \in Statuses
        /\ Obtained = <<>> => result \in Statuses

C4_Witness ==
    /\ pc = "done"
    /\ NoArgsCalled
    /\ noArgsBehaviour = [kind |-> "resolve", value |-> Null]
    /\ result = Str("error")
    /\ retLine = 111

C6_NoArgsThrowIsError ==
    (pc = "done" /\ NoArgsCalled /\ noArgsBehaviour.kind = "throw")
        => result = Str("error") /\ ~raised

C6_Witness ==
    /\ pc = "done"
    /\ ~Truthy(args)
    /\ hostCalls = <<"availability()">>
    /\ noArgsBehaviour.kind = "throw"
    /\ result = Str("error")

(* C7, as stated: a plain result is returned unchanged, a structured result *)
(* with an available field yields that field's value whatever it is, and  *)
(* a structured result without the field yields 'available_object'.         *)
C7_FieldWhateverItsValue ==
    (pc = "done" /\ Obtained # <<>> /\ Obtained[1] # Null)
        => LET r == Obtained[1] IN
           result = IF r.type # "object" THEN r
                    ELSE IF r.avail # <<>> THEN r.avail[1]
                    ELSE Str("available_object")

(* C7, amended: a plain result is returned unchanged; a structured result   *)
(* yields the value of its available field if that value is truthy, and   *)
(* 'available_object' if the field is missing or falsy ('', false, null).   *)
C7_Normalization ==
    (pc = "done" /\ Obtained # <<>> /\ Obtained[1] # Null)
        => LET r == Obtained[1] IN
           result = IF r.type # "object" THEN r
                    ELSE IF r.avail # <<>> /\ Truthy(r.avail[1]) THEN r.avail[1]
                    ELSE Str("available_object")

C7_Witness ==
    /\ pc = "done"
    /\ Obtained = <<Obj(<<Str("")>>)>>
    /\ result = Str("available_object")

(* C8: a null handle gives 'unavailable' and a handle without an            *)
(* availability function gives 'available_unknown_methods', and in neither  *)
(* case is the host ever called.                                            *)
C8_NoHandleNoCall ==
    /\ (apiObject.ref = "null" \/ apiObject.availability # "function")
           => hostCalls = <<>>
    /\ (pc = "done" /\ apiObject.ref = "null")
           => result = Str("unavailable") /\ ~raised
    /\ (pc = "done" /\ apiObject.ref # "null" /\ apiObject.availability # "function")
           => result = Str("available_unknown_methods") /\ ~raised

C8_Witness ==
    /\ pc = "done"
    /\ apiObject = [ref |-> "H1", availability |-> "string"]
    /\ result = Str("available_unknown_methods")
    /\ hostCalls = <<>>

(* C9: against an unchanged host, every probe with the same handle and args *)
(* makes the same host calls and returns the same status as the one before. *)
C9_ProbeIdempotent ==
    \A i, j \in 1..Len(probes) : probes[i] = probes[j]

C9_Witness ==
    /\ Len(probes) >= 2
    /\ probes[2].calls = <<"availability(args)", "availability()">>
    /\ probes[2].value = Str("after-download")

----------------------------------------------------------------------------
(* Properties of the resolver (SpecResolve).                                *)

AiHit == apiDef.namespace = "ai" /\ window.hasAi /\ BindingTruthy(window.ai[apiDef.key])
TopHit == BindingTruthy(window.top[apiDef.key])
FallbackHit == apiDef.fallback # "" /\ BindingTruthy(window.top[apiDef.fallback])

(* C10: the resolver returns the entry under window.ai when the namespace   *)
(* is 'ai' and it exists, else the top-level binding named by key, else the *)
(* top-level binding named by fallback, with the path of the one it took;   *)
(* and a null handle with an empty path when none exists.                   *)
C10_SearchOrder ==
    resolved.called =>
        IF AiHit
        THEN resolved.api = window.ai[apiDef.key]
             /\ resolved.path = "window.ai." \o apiDef.key
        ELSE IF TopHit
        THEN resolved.api = window.top[apiDef.key]
             /\ resolved.path = "window." \o apiDef.key
        ELSE IF FallbackHit
        THEN resolved.api = window.top[apiDef.fallback]
             /\ resolved.path = "window." \o apiDef.fallback
        ELSE resolved.api = "null" /\ resolved.path = ""

C10_Witness ==
    /\ resolved.called
    /\ apiDef.namespace = "ai"
    /\ window.ai[apiDef.key] = "H1"
    /\ window.top[apiDef.key] = "H2"
    /\ resolved.api = "H1"
    /\ resolved.path = "window.ai.LanguageModel"

----------------------------------------------------------------------------
(* Properties of the scan handler (SpecScan).                               *)

(* C1: once a scan has left its handler, every language-model session it    *)
(* created has had destroy() called exactly once, whichever way the scan    *)
(* ended (prompt rejected, response unparsable, form rendering threw, or    *)
(* success).                                                                *)
C1_DestroyedOnEveryExit ==
    scanPc = "idle" =>
        \A i \in 1..Len(lmSessions) : lmSessions[i].destroyed = 1

----------------------------------------------------------------------------
(* Properties of the summarizer (SpecSummarize).                            *)

SessionsOfPass(p) == {i \in 1..Len(sumSessions) : sumSessions[i].pass = p}
CallsOfPass(p) == SelectSeq(summarizeCalls, LAMBDA c : c.pass = p)

(* C2: when runSummarization has ended on a text of at most CHUNK_SIZE      *)
(* characters whose summarize() call was made, exactly one session was      *)
(* created for it and that session was destroyed exactly once, whether the  *)
(* call resolved or rejected.                                               *)
C2_BaseCaseOneSessionOneDisposal ==
    (sumResult.kind # "none" /\ BaseCase /\ CallsOfPass(pass) # <<>>)
        => /\ Cardinality(SessionsOfPass(pass)) = 1
           /\ Len(CallsOfPass(pass)) = 1
           /\ \A i \in SessionsOfPass(pass) : sumSessions[i].destroyed = 1

(* C3: when summarize() rejects on chunk k of a batch, the batch's session  *)
(* is destroyed exactly once, exactly the chunks 1..k of the batch were     *)
(* passed to summarize(), no later pass has a session or a call, and the    *)
(* caller gets the failure and no summary.                                  *)
C3_BatchFailurePropagates ==
    (failedAt.where = "summarize" /\ ~BaseCase)
        => LET p == failedAt.pass
               k == failedAt.chunk
           IN  /\ sumResult.kind = "throw"
               /\ p = pass
               /\ Cardinality(SessionsOfPass(p)) = 1
               /\ \A i \in SessionsOfPass(p) : sumSessions[i].destroyed = 1
               /\ Len(CallsOfPass(p)) = k
               /\ \A j \in 1..k : CallsOfPass(p)[j].text = chunks[j]
               /\ \A i \in 1..Len(sumSessions) : sumSessions[i].pass <= p
               /\ \A j \in 1..Len(summarizeCalls) : summarizeCalls[j].pass <= p
               /\ sumResult.value = EmptyText
               /\ summaryOutput.kind = "error"
               /\ sumPc = "idle"

C3_Witness ==
    /\ sumResult.kind = "throw"
    /\ failedAt = [where |-> "summarize", pass |-> 1, chunk |-> 2]
    /\ Len(chunks) = 3
    /\ Len(summarizeCalls) = 2
    /\ sumSessions = <<[pass |-> 1, destroyed |-> 1]>>

(* chunks.join(''): the chunks one after the other *)
RECURSIVE ConcatAll(_)
ConcatAll(cs) == IF cs = <<>> THEN EmptyText ELSE Concat(Head(cs), ConcatAll(Tail(cs)))

(* C11: every chunk the splitting step produces is at most CHUNK_SIZE       *)
(* characters long, whatever text over the bound it was given.              *)
C11_ChunksWithinBound ==
    \A i \in 1..Len(chunks) : TextLength(chunks[i]) <= CHUNK_SIZE

(* C12: the chunks of a text, concatenated in order, are that text.         *)
C12_ChunksReconstructText ==
    chunks # <<>> => ConcatAll(chunks) = text

(* the chunks cs are units 1..n cut at increasing positions, every piece    *)
(* holding at least one unit                                                *)
WholeUnits(cs, units) ==
    \E cut \in [0..Len(cs) -> 0..Len(units)] :
        /\ cut[0] = 0
        /\ cut[Len(cs)] = Len(units)
        /\ \A k \in 1..Len(cs) :
              /\ cut[k - 1] < cut[k]
              /\ cs[k] = ConcatAll(SubSeq(units, cut[k - 1] + 1, cut[k]))

(* C13: every chunk is one or more whole consecutive sentence units of the  *)
(* text, in the order of the text; no unit is split between two chunks.     *)
C13_ChunksAreWholeSentences ==
    chunks # <<>> => WholeUnits(chunks, Sentences(text))

(* C14: a text over the bound whose chunk summaries, joined by a blank      *)
(* line, fit within the bound: when runSummarization returns, two sessions  *)
(* were created, the batch's and then the final one, each destroyed once;   *)
(* summarize() was called on the n chunks in order and then once on the     *)
(* joined summaries, and the value returned is the result of that last      *)
(* call.                                                                    *)
C14_TwoPassRun ==
    (sumResult.kind = "return" /\ pass = 2)
        => LET n == Len(SplitIntoChunks(inputText))
               results == [i \in 1..n |-> summarizeCalls[i].result[1]]
           IN  /\ TextLength(inputText) > CHUNK_SIZE
               /\ sumSessions = <<[pass |-> 1, destroyed |-> 1],
                                  [pass |-> 2, destroyed |-> 1]>>
               /\ Len(summarizeCalls) = n + 1
               /\ \A i \in 1..n :
                     /\ summarizeCalls[i].pass = 1
                     /\ summarizeCalls[i].text = SplitIntoChunks(inputText)[i]
               /\ summarizeCalls[n + 1].pass = 2
               /\ summarizeCalls[n + 1].text = JoinSummaries(results)
               /\ TextLength(summarizeCalls[n + 1].text) <= CHUNK_SIZE
               /\ summarizeCalls[n + 1].result = <<sumResult.value>>
               /\ summaryOutput = [shown |-> TRUE, kind |-> "summary",
                                   value |-> sumResult.value]

C14_Witness ==
    /\ sumResult.kind = "return"
    /\ pass = 2
    /\ Len(SplitIntoChunks(inputText)) = 3
    /\ Len(summarizeCalls) = 4
    /\ summarizeCalls[1].result # summarizeCalls[2].result
    /\ sumResult.value = <<Chars(40), Terms(1)>>

----------------------------------------------------------------------------
(* Properties of the panel as a whole (SpecPanel, SpecPanelFair).           *)

(* the pipeline operations in flight: a scan, runs of the replace handler,  *)
(* a summarization                                                          *)
InFlight ==
    (IF scanPc # "idle" THEN 1 ELSE 0) + Len(replaceOps)
        + (IF sumPc # "idle" THEN 1 ELSE 0)

(* C15: at most one pipeline operation (scan, replace, summarization) is    *)
(* in flight at any time.                                                   *)
C15_OneOperationAtATime == InFlight <= 1

(* C16: a scan whose tab query gave no tab, a tab without a readable url or *)
(* a tab on a restricted page has failed without a language-model session   *)
(* of its own; and as long as no page text was obtained the summarization   *)
(* has not got as far as creating a session or calling summarize().         *)
C16_FailFastBeforeAnyModelCall ==
    /\ scanTab \in {"noTab", "noUrl", "restricted"}
          => /\ scanPc = "idle"
             /\ scanExit = scanTab
             /\ \A i \in 1..Len(lmSessions) : lmSessions[i].scan # scanCount
    /\ inputText = EmptyText
          => /\ sumPc \in {"idle", "awaitTabQuery", "awaitPageText"}
             /\ sumSessions = <<>>
             /\ summarizeCalls = <<>>
    /\ failedAt.where \in {"noText", "tabQuery", "executeScript"}
          => /\ sumResult.kind = "throw"
             /\ sumSessions = <<>>

C16_Witness ==
    /\ scanTab = "restricted"
    /\ scanExit = "restricted"
    /\ scanPc = "idle"
    /\ scanCount = 2
    /\ lmSessions = <<[scan |-> 1, destroyed |-> 1]>>

----------------------------------------------------------------------------
(* Properties of the download button (SpecDownload).                        *)

(* a / b <= c / d *)
FractionLeq(a, b) == a.num * b.den <= b.num * a.den

(* C18: the percent values shown during a download, as the bar's width and  *)
(* in the button's label, never decrease.                                   *)
C18_PercentNonDecreasing ==
    \A i \in 1..(Len(dlReports) - 1) :
        /\ FractionLeq(dlReports[i].width, dlReports[i + 1].width)
        /\ dlReports[i].label <= dlReports[i + 1].label

(* C19: once a download has ended with success, every session it created    *)
(* that has destroy() has been destroyed exactly once.                      *)
C19_DownloadSessionReleased ==
    (dlPc = "idle" /\ dlExit = "success")
        => \A i \in 1..Len(dlSessions) :
              dlSessions[i].destroy => dlSessions[i].destroyed = 1

----------------------------------------------------------------------------
(* Properties of the injected function (SpecReplace).                       *)

(* the word w stands in t at position i, without regard to case *)
LiteralAt(w, t, i) ==
    /\ i + Len(w) - 1 <= Len(t)
    /\ \A k \in 1..Len(w) : Lower(t[i + k - 1]) = Lower(w[k])

(* t with every occurrence of the word w replaced by r as it is *)
RECURSIVE SubstituteFrom(_, _, _, _)
SubstituteFrom(t, w, r, i) ==
    IF i > Len(t) THEN <<>>
    ELSE IF LiteralAt(w, t, i) THEN r \o SubstituteFrom(t, w, r, i + Len(w))
    ELSE <<t[i]>> \o SubstituteFrom(t, w, r, i + 1)

(* the entries of the map substituted one after the other *)
RECURSIVE SubstituteAll(_, _, _)
SubstituteAll(t, map, k) ==
    IF k > Len(map) THEN t
    ELSE SubstituteAll(SubstituteFrom(t, map[k].original, map[k].replacement, 1),
                       map, k + 1)

(* C20: every text node the walker has visited holds its text with, entry   *)
(* by entry, all occurrences of the original word (a literal, matched       *)
(* without regard to case) replaced by the replacement text exactly as it   *)
(* was supplied.                                                            *)
C20_LiteralVerbatimReplace ==
    \A n \in 1..walker : nodeValue[n] = SubstituteAll(pageText[n], replacementsMap, 1)

----------------------------------------------------------------------------
(* Properties of the replace handler (SpecScan).                            *)

(* v without the white space at its two ends *)
IsTrimOf(v, t) ==
    /\ t # <<>> => (t[1] \notin Whitespace /\ t[Len(t)] \notin Whitespace)
    /\ \E i \in 1..(Len(v) + 1), j \in 0..Len(v) :
          /\ t = SubSeq(v, i, j)
          /\ \A k \in 1..Len(v) : (k < i \/ k > j) => v[k] \in Whitespace
TrimmedValue(v) ==
    CHOOSE t \in {SubSeq(v, i, j) : i \in 1..(Len(v) + 1), j \in 0..Len(v)} : IsTrimOf(v, t)

(* the inputs of a form whose trimmed value is not empty *)
Filled(form) == {i \in 1..Len(form) : TrimmedValue(form[i].value) # <<>>}

(* map has one entry for every filled input, holding that input's word and  *)
(* trimmed value, and no other entry                                        *)
EntryPerInput(map, form) ==
    /\ Len(map) = Cardinality(Filled(form))
    /\ \A i \in Filled(form) :
          \E k \in 1..Len(map) :
             map[k] = [original |-> form[i].original,
                       replacement |-> TrimmedValue(form[i].value)]

(* map has one entry for every word that has a filled input, holding the    *)
(* trimmed value of the last such input, and no other entry                 *)
EntryPerWord(map, form) ==
    /\ \A k, l \in 1..Len(map) : map[k].original = map[l].original => k = l
    /\ {map[k].original : k \in 1..Len(map)} = {form[i].original : i \in Filled(form)}
    /\ \A k \in 1..Len(map) :
          LET of == {i \in Filled(form) : form[i].original = map[k].original}
              last == CHOOSE i \in of : \A j \in of : j <= i
          IN  map[k].replacement = TrimmedValue(form[last].value)

(* a click on Replace Words: with no filled input nothing is started, else  *)
(* a run is started whose map is as Right says; and whatever is injected    *)
(* into the page is the non-empty map of a run                              *)
ReplaceStep(Right(_, _)) ==
    /\ replaceCount' = replaceCount + 1
          => IF Filled(wordsForm) = {}
             THEN replaceOps' = replaceOps /\ injected' = injected /\ ~panelClosed'
             ELSE /\ Len(replaceOps') = Len(replaceOps) + 1
                  /\ Right(replaceOps'[Len(replaceOps')].replacements, wordsForm)
    /\ injected' # injected
          => /\ injected'[Len(injected')] # <<>>
             /\ \E i \in 1..Len(replaceOps) :
                   replaceOps[i].replacements = injected'[Len(injected')]

----------------------------------------------------------------------------
(* Properties of the response parsing (SpecScan).                           *)

(* a response that is one fenced JSON object of word lists: a fence, maybe  *)
(* a language token, the object on lines of its own, a fence                *)
FencedObject(r) ==
    /\ Len(r) \in {5, 6}
    /\ r[1] = "FENCE"
    /\ Len(r) = 6 => r[2] \notin (Whitespace \cup JsonBodies \cup {"FENCE"})
    /\ r[Len(r) - 3] = "\n"
    /\ r[Len(r) - 2] = "{words}"
    /\ r[Len(r) - 1] = "\n"
    /\ r[Len(r)] = "FENCE"

(* C22: a scan that got a fenced JSON object of word lists, whatever the    *)
(* language token after the leading fence, ends in success with that object *)
(* stored; and a scan that ended on a response it could not parse has       *)
(* prompted the model once only.                                            *)
C22_FencedObjectParses ==
    (scanPc = "idle" /\ scanResponse # <<>>)
        => /\ FencedObject(scanResponse)
                 => /\ scanExit = "success"
                    /\ currentWordsMap = JsonValue("{words}")
           /\ scanExit = "parse"
                 => Cardinality({i \in 1..Len(lmSessions) :
                                    lmSessions[i].scan = scanCount}) = 1

----------------------------------------------------------------------------
(* Properties of the recursion of runSummarization (SpecSummarize,          *)
(* SpecSummarizeShaving).                                                   *)

(* every summarize() call that has resolved returned the text it was given *)
AllUnchanged ==
    \A i \in 1..Len(summarizeCalls) :
        summarizeCalls[i].result \in {<<>>, <<summarizeCalls[i].text>>}

(* C23: a run on a text over the bound whose summarizer returns its input   *)
(* unchanged never reaches the base case, so it never returns.              *)
C23_UnchangedNeverReturns ==
    (TextLength(inputText) > CHUNK_SIZE /\ AllUnchanged)
        => sumResult.kind # "return"

----------------------------------------------------------------------------
(* Properties of the writes of the injected function (SpecReplace).         *)

(* some original word of the map occurs in t, letter case aside *)
SomeWordOccurs(map, t) ==
    \E k \in 1..Len(map) : \E i \in 1..Len(t) : LiteralAt(map[k].original, t, i)

(* C24: a text node is assigned only if an entry matched it: a node in      *)
(* whose text no original word occurs is never assigned and keeps its       *)
(* text, a node is assigned at most once, and the nodes the walker has not  *)
(* reached are untouched.                                                   *)
C24_WriteOnlyOnMatch ==
    \A n \in 1..NodeCount :
        /\ nodeWrites[n] <= 1
        /\ nodeWrites[n] = 1
              => n <= walker /\ SomeWordOccurs(replacementsMap, pageText[n])
        /\ ~SomeWordOccurs(replacementsMap, pageText[n])
              => nodeWrites[n] = 0 /\ nodeValue[n] = pageText[n]
        /\ n > walker => nodeValue[n] = pageText[n]

C24_Witness ==
    /\ walker = NodeCount
    /\ \E n, m \in 1..NodeCount :
          /\ nodeWrites[n] = 1
          /\ nodeValue[n] # pageText[n]
          /\ nodeWrites[m] = 0
          /\ ~SomeWordOccurs(replacementsMap, pageText[m])

(* the sessions of the run that are not destroyed *)
Alive == {i \in 1..Len(sumSessions) : sumSessions[i].destroyed = 0}

(* C25: at most one summarizer session of a run is alive at a time: every   *)
(* session but the newest has been destroyed, once, so a pass's session is  *)
(* destroyed before the session of the next pass is created.                *)
C25_OneSessionAlive ==
    /\ Cardinality(Alive) <= 1
    /\ \A i \in 1..Len(sumSessions) :
          /\ sumSessions[i].pass = i
          /\ i < Len(sumSessions) => sumSessions[i].destroyed = 1
    /\ Len(sumSessions) \in {pass - 1, pass}

C25_Witness ==
    /\ sumPc = "awaitSummarize"
    /\ pass = 3
    /\ Len(chunks) >= 2
    /\ chunkNo = 2
    /\ sumSessions = <<[pass |-> 1, destroyed |-> 1],
                       [pass |-> 2, destroyed |-> 1],
                       [pass |-> 3, destroyed |-> 0]>>

(* every summarize() call that has resolved returned a text at least d     *)
(* characters shorter than the text it was given                            *)
AllShorterBy(d) ==
    \A i \in 1..Len(summarizeCalls) :
        summarizeCalls[i].result # <<>>
            => TextLength(summarizeCalls[i].result[1]) + d
                  <= TextLength(summarizeCalls[i].text)

(* the length of the summaries ss joined by two line breaks *)
RECURSIVE JoinedLength(_)
JoinedLength(ss) ==
    IF ss = <<>> THEN 0
    ELSE TextLength(Head(ss)) + (IF Len(ss) > 1 THEN 2 ELSE 0) + JoinedLength(Tail(ss))

(* when a batch ends, whether in a recursive call or where this model       *)
(* stops following the recursion, what goes to the next pass is shorter     *)
(* than the text of the pass that ends, given summaries shorter by d        *)
PassShrinks(d) ==
    /\ (pass >= 1 /\ pass' = pass + 1 /\ AllShorterBy(d)')
          => TextLength(text') < TextLength(text)
    /\ (sumPc # "beyond" /\ sumPc' = "beyond" /\ AllShorterBy(d)')
          => JoinedLength(chunkSummaries') < TextLength(text)

(* C26 as stated: when every summarize() returns a text shorter than its    *)
(* input, the text of each recursive pass is shorter than the text of the   *)
(* pass before it.                                                          *)
C26_ShorterSummariesShrink == [][PassShrinks(1)]_vars

(* C26: when every summarize() returns a text at least two characters       *)
(* shorter than its input, the text of each recursive pass is shorter than  *)
(* the text of the pass before it, so the passes end in the base case.      *)
C26_ShorterByTwoShrinks == [][PassShrinks(2)]_vars

C26_Witness ==
    /\ sumResult.kind = "return"
    /\ pass = 3
    /\ AllShorterBy(2)
    /\ Len(SplitIntoChunks(inputText)) = 3
    /\ Len(summarizeCalls) = 6
    /\ TextLength(summarizeCalls[4].result[1]) + 2 = TextLength(summarizeCalls[4].text)

(* C27: the splitting step never produces an empty chunk, also when the    *)
(* first sentence unit alone is over the bound, so no summarize() call of   *)
(* a batch is given the empty string.                                       *)
C27_NoEmptyChunk ==
    /\ \A i \in 1..Len(chunks) : chunks[i] # EmptyText
    /\ \A i \in 1..Len(summarizeCalls) : summarizeCalls[i].text # EmptyText

----------------------------------------------------------------------------
(* Properties of the scan's controls (SpecScan).                            *)

(* the words of a category of the scan's result, none when it is no list *)
ItemsOf(data, cat) == IF data[cat].kind = "array" THEN data[cat].items ELSE <<>>

(* the word and category of one input per word of the result: the nouns,    *)
(* then the verbs, then the adjectives                                      *)
WordsAndCategories(data) ==
    LET of(cat) == [i \in 1..Len(ItemsOf(data, cat)) |->
                       [original |-> ItemsOf(data, cat)[i], category |-> cat]]
    IN  of("nouns") \o of("verbs") \o of("adjectives")

(* C28: the replace button is visible only when the most recent scan has    *)
(* ended in success and the words form holds exactly the inputs built from  *)
(* that scan's result; while a scan runs and after a scan has failed the    *)
(* replace button and the words form are hidden.                            *)
C28_ReplaceVisibleOnlyAfterSuccess ==
    /\ ~replaceBtnHidden
          => /\ scanPc = "idle"
             /\ scanExit = "success"
             /\ ~wordsFormHidden
             /\ scanResponse # <<>>
             /\ currentWordsMap = JsonParse(StripFences(Trim(scanResponse))).value
             /\ currentWordsMap.type # "null"
             /\ [i \in 1..Len(wordsForm) |->
                    [original |-> wordsForm[i].original,
                     category |-> wordsForm[i].category]]
                   = WordsAndCategories(currentWordsMap)
    /\ (scanPc # "idle" \/ scanExit \notin {"none", "success"})
          => replaceBtnHidden /\ wordsFormHidden

C28_Witness ==
    /\ scanCount = 2
    /\ scanPc = "idle"
    /\ ~replaceBtnHidden
    /\ scanResponse = <<"FENCE", "json", "\n", "{words}", "\n", "FENCE">>
    /\ Len(wordsForm) = 2
    /\ wordsForm[2].value = <<" ", "dog", "\n">>

====
